---- MODULE Spec2Model ----
(***************************************************************************)
(* Model of tikzmagic.py: the %%tikz cell magic (TikzMagics.tikz), the     *)
(* document assembler (_construct_latex), the LaTeX runner (_run_latex),   *)
(* the two converters and the SVG post-processing (_fix_gnuplot_svg_size). *)
(*                                                                         *)
(* Text is a sequence of atoms (TLA+ strings).  The fragments the code     *)
(* writes itself are single atoms ("\\begin{document}\n"); text supplied   *)
(* by the user is a sequence of atoms of a small alphabet.  Joining is     *)
(* concatenation, str.split is Split.                                      *)
(***************************************************************************)
EXTENDS Integers, Sequences, FiniteSets, TLC

VARIABLES
    pc,            \* position of the running tikz invocation ("idle" between invocations)
    args,          \* the parsed arguments of the invocation (format, save, showlatex, ...)
    code,          \* the local `code` of tikz: the assembled document
    plot_dir,      \* the local `plot_dir` of tikz: id of the directory mkdtemp returned (0: none yet)
    display_data,  \* the local `display_data` of tikz
    result,        \* how the last invocation ended: "none", "returned" or the exception's name
    ninv,          \* number of invocations started
    published,     \* the calls made to self._publish_display_data, in order
    saved,         \* the paths written by copy(image_filename, args.save)
    stdout,        \* what the invocation printed with print(code)
    fs,            \* the temporary directories that exist: directory id -> set of file names
    cwd,           \* the process working directory (0: the notebook's directory)
    stderr,        \* the lines written to sys.stderr by the running invocation or call
    call           \* the last direct call of a method: name, inputs, result

vars == <<pc, args, code, plot_dir, display_data, result, ninv, published,
          saved, stdout, fs, cwd, stderr, call>>

(***************************************************************************)
(* Bounds                                                                  *)
(***************************************************************************)
MaxInvocations == 2     \* invocations of the magic in one behaviour
MaxBodyLen == 2         \* atoms in a TikZ body
MaxFlagLen == 3         \* atoms in a --package / --library value

(***************************************************************************)
(* Text helpers                                                            *)
(***************************************************************************)
SeqsUpTo(S, n) == UNION {[1..k -> S] : k \in 0..n}

RECURSIVE Concat(_)
\* str('').join(parts)
Concat(parts) ==
    IF parts = <<>> THEN <<>> ELSE Head(parts) \o Concat(Tail(parts))

RECURSIVE SplitAcc(_, _, _)
SplitAcc(s, sep, cur) ==
    IF s = <<>> THEN <<cur>>
    ELSE IF Head(s) = sep THEN <<cur>> \o SplitAcc(Tail(s), sep, <<>>)
    ELSE SplitAcc(Tail(s), sep, Append(cur, Head(s)))

\* str.split(sep): always at least one piece; ''.split(',') is ['']
Split(s, sep) == SplitAcc(s, sep, <<>>)

Count(s, a) == Cardinality({i \in 1..Len(s) : s[i] = a})

DigitChar == <<"0", "1", "2", "3", "4", "5", "6", "7", "8", "9">>

RECURSIVE Digits(_)
\* the decimal digits '%d' writes for a non-negative integer
Digits(n) ==
    IF n < 10 THEN <<DigitChar[n + 1]>>
    ELSE Digits(n \div 10) \o <<DigitChar[(n % 10) + 1]>>

(***************************************************************************)
(* _fix_gnuplot_svg_size                                                   *)
(***************************************************************************)
IntVal(n) == [t |-> "int", n |-> n]
StrVal(s) == [t |-> "str", s |-> s]

\* '%dpx' % v : a number is formatted, anything else is a TypeError
FormatDpx(v) ==
    IF v.t = "int" THEN [exc |-> "none", s |-> Digits(v.n) \o <<"px">>]
    ELSE [exc |-> "TypeError", s |-> <<>>]

NoSize == [some |-> FALSE, w |-> 0, h |-> 0]
SomeSize(w, h) == [some |-> TRUE, w |-> w, h |-> h]

\* image: the parsed document, [nsvg, viewBox, width, height]; size: NoSize or SomeSize(w, h)
fix_gnuplot_svg_size(image, size) ==
    IF image.nsvg # 1 THEN [exc |-> "ValueError", svg |-> image]
    ELSE
    LET viewbox == Split(image.viewBox, " ")
        rest == SubSeq(viewbox, 3, Len(viewbox))
    IN  IF ~size.some /\ Len(rest) # 2 THEN [exc |-> "ValueError", svg |-> image]
        ELSE
        LET width  == IF size.some THEN IntVal(size.w) ELSE StrVal(rest[1])
            height == IF size.some THEN IntVal(size.h) ELSE StrVal(rest[2])
            fw == FormatDpx(width)
            fh == FormatDpx(height)
        IN  IF fw.exc # "none" THEN [exc |-> fw.exc, svg |-> image]
            ELSE IF fh.exc # "none"
                 THEN [exc |-> fh.exc, svg |-> [image EXCEPT !.width = fw.s]]
            ELSE [exc |-> "none",
                  svg |-> [image EXCEPT !.width = fw.s, !.height = fh.s]]

(***************************************************************************)
(* _construct_latex                                                        *)
(***************************************************************************)
BEGIN_DOCUMENT == "\\begin{document}\n"
END_DOCUMENT == "\n    \\end{document}\n    "
BEGIN_TIKZPICTURE == "\\begin{tikzpicture}"
END_TIKZPICTURE == "\\end{tikzpicture}"

\* an optional string: None or a text
NoneStr == [some |-> FALSE, text |-> <<>>]
SomeStr(t) == [some |-> TRUE, text |-> t]

RECURSIVE Lines_reversed(_, _, _)
\* Lines, walking the list from its end
Lines_reversed(open, items, close) ==
    IF items = <<>> THEN <<>>
    ELSE Lines_reversed(open, Tail(items), close) \o <<open>> \o Head(items) \o <<close>>

RECURSIVE Lines(_, _, _)
\* for x in items: tex.append(f"{open}{x}{close}")
Lines(open, items, close) ==
    IF items = <<>> THEN <<>>
    ELSE <<open>> \o Head(items) \o <<close>> \o Lines(open, Tail(items), close)

DocumentClass(imagemagick_path, add_params, width, height) ==
    <<"\n    \\documentclass[convert={convertexe={">> \o imagemagick_path
      \o <<"},">> \o add_params \o <<"size=">> \o width \o <<"x">> \o height
      \o <<",outext=.png},border=0pt]{standalone}\n    ">>

\* the assembler of the upstream magic: the body wrapped in a tikzpicture
construct_latex_wrapped(tikz_code, imagemagick_path, add_params, width, height, tikz_options, tikz_package, latex_packages, tikz_libraries, pgfplots_libraries, preamble) ==
    Concat(<<
        DocumentClass(imagemagick_path, add_params, width, height),
        <<"\\usepackage[">> \o tikz_options \o <<"]{">> \o tikz_package \o <<"}\n">>,
        IF latex_packages # << <<>> >>
            THEN Lines("\\usepackage{", latex_packages, "}\n") ELSE <<>>,
        IF tikz_libraries # << <<>> >>
            THEN Lines("\\usetikzlibrary{", tikz_libraries, "}\n") ELSE <<>>,
        IF pgfplots_libraries # << <<>> >>
            THEN Lines("\\usepgfplotslibrary{", pgfplots_libraries, "}\n") ELSE <<>>,
        IF preamble.some THEN preamble.text \o <<"\n">> ELSE <<>>,
        <<BEGIN_DOCUMENT>>,
        <<BEGIN_TIKZPICTURE>>,
        tikz_code,
        <<END_TIKZPICTURE>>,
        <<END_DOCUMENT>>
    >>)

construct_latex(tikz_code, imagemagick_path, add_params, width, height, tikz_options, tikz_package, latex_packages, tikz_libraries, pgfplots_libraries, preamble) ==
    Concat(<<
        DocumentClass(imagemagick_path, add_params, width, height),
        <<"\\usepackage[">> \o tikz_options \o <<"]{">> \o tikz_package \o <<"}\n">>,
        IF latex_packages # << <<>> >>
            THEN Lines("\\usepackage{", latex_packages, "}\n") ELSE <<>>,
        IF tikz_libraries # << <<>> >>
            THEN Lines("\\usetikzlibrary{", tikz_libraries, "}\n") ELSE <<>>,
        IF pgfplots_libraries # << <<>> >>
            THEN Lines("\\usepgfplotslibrary{", pgfplots_libraries, "}\n") ELSE <<>>,
        IF preamble.some THEN preamble.text \o <<"\n">> ELSE <<>>,
        <<BEGIN_DOCUMENT>>,
        tikz_code,
        <<END_DOCUMENT>>
    >>)

(***************************************************************************)
(* Argument reading and document assembly in tikz                          *)
(***************************************************************************)
\* the defaults of the @argument declarations
DefaultArgs ==
    [format |-> "png",
     size |-> <<"4", "0", "0", ",", "2", "4", "0">>,
     preamble |-> <<>>,
     package |-> <<>>,
     library |-> <<>>,
     pgfplotslibrary |-> <<>>,
     save |-> NoneStr,
     imagemagick |-> <<"convert">>,
     showlatex |-> FALSE,
     circuitikz |-> FALSE,
     tkz_euclide |-> FALSE,
     tikzoptions |-> <<>>,
     code |-> <<>>,
     cell |-> NoneStr]

\* code = str('').join(args.code) + code
TikzCode(a) == Concat(a.code) \o (IF a.cell.some THEN a.cell.text ELSE <<>>)

AddParams(a) ==
    IF a.format \in {"png", "jpg", "jpeg"} THEN <<"density=300,">> ELSE <<>>

TikzPackage(a) ==
    IF a.circuitikz THEN <<"circuitikz">>
    ELSE IF a.tkz_euclide THEN <<"tkz-euclide">>
    ELSE <<"tikz">>

\* the document tikz hands to _run_latex or prints
assemble(a) ==
    LET wh == Split(a.size, ",")
    IN  construct_latex(TikzCode(a), a.imagemagick, AddParams(a), wh[1], wh[2],
                        a.tikzoptions, TikzPackage(a),
                        Split(a.package, ","), Split(a.library, ","),
                        Split(a.pgfplotslibrary, ","), SomeStr(a.preamble))

DigitValue(c) == CHOOSE n \in 0..9 : DigitChar[n + 1] = c

RECURSIVE ParseInt(_)
\* int(s) for a string of decimal digits
ParseInt(s) ==
    IF Len(s) = 1 THEN DigitValue(s[1])
    ELSE 10 * ParseInt(SubSeq(s, 1, Len(s) - 1)) + DigitValue(s[Len(s)])

mimetypes ==
    [png |-> "image/png", svg |-> "image/svg+xml",
     jpg |-> "image/jpeg", jpeg |-> "image/jpeg"]

(***************************************************************************)
(* The environment: the file system, the working directory, the processes  *)
(***************************************************************************)
Env == [fs |-> fs, cwd |-> cwd]

AddFiles(f, dir, names) == [f EXCEPT ![dir] = @ \cup names]

\* what one run of "pdflatex --shell-escape tikz.tex" can do: how the process
\* ends, which files it leaves, and whether a captured stream is not UTF-8
Outcomes ==
    {[proc |-> "ok", out |-> F, utf8 |-> "ok"] : F \in SUBSET {"tikz.pdf", "tikz.png"}}
    \cup {[proc |-> "nonzero", out |-> F, utf8 |-> u] :
             F \in SUBSET {"tikz.pdf", "tikz.png"}, u \in {"ok", "stdout", "stderr"}}
    \cup {[proc |-> "oserror", out |-> {}, utf8 |-> "ok"]}

LibOutcomes == {"ok", "error"}

Raise(e, exc, err) == [fs |-> e.fs, cwd |-> e.cwd, err |-> err, exc |-> exc]

\* _run_latex(code, encoding, dir) started in environment e, the process doing o
run_latex(e, doc, dir, o) ==
    IF dir \notin DOMAIN e.fs THEN Raise(e, "FileNotFoundError", <<>>)
    ELSE
    LET fs1 == AddFiles(e.fs, dir, {"tikz.tex"})
        current_dir == e.cwd
        fs2 == IF o.proc = "oserror" THEN fs1 ELSE AddFiles(fs1, dir, o.out)
        print_log == o.proc # "ok"
        err1 == IF o.proc = "nonzero"
                    THEN <<"pdflatex terminated with signal", "command:", "tkiz.tex:">>
                ELSE IF o.proc = "oserror" THEN <<"LaTeX execution failed:">>
                ELSE <<>>
    IN  IF print_log /\ o.utf8 = "stdout"
            THEN [fs |-> fs2, cwd |-> dir, err |-> err1, exc |-> "UnicodeDecodeError"]
        ELSE IF print_log /\ o.utf8 = "stderr"
            THEN [fs |-> fs2, cwd |-> dir, err |-> err1 \o <<"stdout:">>,
                  exc |-> "UnicodeDecodeError"]
        ELSE [fs |-> fs2, cwd |-> current_dir,
              err |-> IF print_log THEN err1 \o <<"stdout:", "stderr:">> ELSE err1,
              exc |-> "none"]

\* the shared shape of the two converters: chdir, try the library, chdir back
Convert(e, dir, from, to, lib) ==
    IF dir \notin DOMAIN e.fs THEN Raise(e, "FileNotFoundError", <<>>)
    ELSE
    LET current_dir == e.cwd
        done == from \in e.fs[dir] /\ lib = "ok"
    IN  [fs |-> IF done THEN AddFiles(e.fs, dir, {to}) ELSE e.fs,
         cwd |-> current_dir,
         err |-> IF done THEN <<>> ELSE <<"Conversion failed:">>,
         exc |-> "none"]

convert_pdf_to_svg(e, dir, lib) == Convert(e, dir, "tikz.pdf", "tikz.svg", lib)

convert_png_to_jpg(e, dir, lib) == Convert(e, dir, "tikz.png", "tikz.jpg", lib)

(***************************************************************************)
(* tikz: one invocation of the magic, step by step                         *)
(***************************************************************************)
Formats == {"png", "svg", "jpg", "jpeg"}
SavePaths == {NoneStr, SomeStr(<<"out">>)}
BodyAtoms == {"\\draw;", BEGIN_TIKZPICTURE, END_TIKZPICTURE, BEGIN_DOCUMENT}
CellBodies == {<<>>, <<BEGIN_TIKZPICTURE, "\\draw;", END_TIKZPICTURE>>}

ImageFile(a) == "tikz." \o a.format

\* the SVG PyMuPDF writes: one root element with a viewBox and a size in pt
MuPdfSvg ==
    [nsvg |-> 1,
     viewBox |-> <<"0", " ", "0", " ", "1", "0", "0", " ", "5", "0">>,
     width |-> <<"1", "0", "0", "p", "t">>,
     height |-> <<"5", "0", "p", "t">>]

RasterImage == [nsvg |-> 0, viewBox |-> <<>>, width |-> <<>>, height |-> <<>>]

\* the pipeline's variables before any invocation
InitPipeline ==
    /\ pc = "idle"
    /\ args = DefaultArgs
    /\ code = <<>>
    /\ plot_dir = 0
    /\ display_data = <<>>
    /\ result = "none"
    /\ ninv = 0
    /\ published = <<>>
    /\ saved = {}
    /\ stdout = <<>>
    /\ cwd = 0
    /\ stderr = <<>>

End(how) == pc' = "idle" /\ result' = how

\* lines 349-411: read the arguments, make the directory, assemble, --showlatex
Invoke ==
    /\ pc = "idle"
    /\ ninv < MaxInvocations
    /\ \E f \in Formats, sv \in SavePaths, sl \in BOOLEAN, body \in CellBodies :
        LET a == [DefaultArgs EXCEPT !.format = f, !.save = sv, !.showlatex = sl,
                                     !.cell = SomeStr(body)]
            d == ninv + 1
        IN  /\ args' = a
            /\ ninv' = d
            /\ plot_dir' = d
            /\ fs' = [x \in DOMAIN fs \cup {d} |-> IF x = d THEN {} ELSE fs[x]]
            /\ code' = assemble(a)
            /\ stdout' = IF sl THEN assemble(a) ELSE <<>>
            /\ pc' = IF sl THEN "idle" ELSE "run_latex"
            /\ result' = IF sl THEN "returned" ELSE "running"
    /\ display_data' = <<>>
    /\ stderr' = <<>>
    /\ UNCHANGED <<published, saved, cwd, call>>

\* line 413
RunLatex ==
    /\ pc = "run_latex"
    /\ \E o \in Outcomes :
        LET r == run_latex(Env, code, plot_dir, o)
        IN  /\ fs' = r.fs
            /\ cwd' = r.cwd
            /\ stderr' = stderr \o r.err
            /\ IF r.exc = "none" THEN pc' = "convert" /\ result' = result
               ELSE End(r.exc)
    /\ UNCHANGED <<args, code, plot_dir, display_data, ninv, published, saved,
                   stdout, call>>

\* lines 415-421: _convert_png_to_jpg(self, dir) is called with two arguments
ConvertFormat ==
    /\ pc = "convert"
    /\ IF args.format \in {"jpg", "jpeg"}
       THEN End("TypeError") /\ UNCHANGED <<fs, cwd, stderr>>
       ELSE IF args.format = "svg"
       THEN \E lib \in LibOutcomes :
               LET r == convert_pdf_to_svg(Env, plot_dir, lib)
               IN  /\ fs' = r.fs
                   /\ cwd' = r.cwd
                   /\ stderr' = stderr \o r.err
                   /\ pc' = "read" /\ result' = result
       ELSE pc' = "read" /\ UNCHANGED <<fs, cwd, stderr, result>>
    /\ UNCHANGED <<args, code, plot_dir, display_data, ninv, published, saved,
                   stdout, call>>

\* ReadImage without the IOError branch: a payload whether or not the file is there
ReadImage_unchecked ==
    /\ pc = "read"
    /\ display_data' =
          Append(display_data,
                 [source |-> "TikZMagic.Tikz", mime |-> mimetypes[args.format],
                  file |-> ImageFile(args), image |-> RasterImage])
    /\ pc' = "save"
    /\ UNCHANGED <<stderr, result>>
    /\ UNCHANGED <<args, code, plot_dir, ninv, published, saved, stdout, fs, cwd, call>>

\* lines 423-435
ReadImage ==
    /\ pc = "read"
    /\ IF ImageFile(args) \in fs[plot_dir]
       THEN LET wh == Split(args.size, ",")
                size == SomeSize(ParseInt(wh[1]), ParseInt(wh[2]))
                fixed == IF args.format = "svg"
                         THEN fix_gnuplot_svg_size(MuPdfSvg, size)
                         ELSE [exc |-> "none", svg |-> RasterImage]
            IN  IF fixed.exc = "none"
                THEN /\ display_data' =
                          Append(display_data,
                                 [source |-> "TikZMagic.Tikz",
                                  mime |-> mimetypes[args.format],
                                  file |-> ImageFile(args),
                                  image |-> fixed.svg])
                     /\ pc' = "save"
                     /\ UNCHANGED <<stderr, result>>
                ELSE End(fixed.exc) /\ UNCHANGED <<display_data, stderr>>
       ELSE /\ stderr' = Append(stderr, "No image generated.")
            /\ pc' = "save"
            /\ UNCHANGED <<display_data, result>>
    /\ UNCHANGED <<args, code, plot_dir, ninv, published, saved, stdout, fs, cwd, call>>

\* lines 437-439
SaveCopy ==
    /\ pc = "save"
    /\ IF ~args.save.some
       THEN pc' = "rmtree" /\ UNCHANGED <<saved, result>>
       ELSE IF ImageFile(args) \in fs[plot_dir]
       THEN /\ saved' = saved \cup {args.save.text}
            /\ pc' = "rmtree" /\ result' = result
       ELSE End("FileNotFoundError") /\ UNCHANGED saved
    /\ UNCHANGED <<args, code, plot_dir, display_data, ninv, published, stdout,
                   fs, cwd, stderr, call>>

\* Rmtree leaving the directory for later
Rmtree_skipped ==
    /\ pc = "rmtree"
    /\ pc' = "publish"
    /\ UNCHANGED <<args, code, plot_dir, display_data, result, ninv, published,
                   saved, stdout, fs, cwd, stderr, call>>

\* line 441
Rmtree ==
    /\ pc = "rmtree"
    /\ fs' = [x \in DOMAIN fs \ {plot_dir} |-> fs[x]]
    /\ pc' = "publish"
    /\ UNCHANGED <<args, code, plot_dir, display_data, result, ninv, published,
                   saved, stdout, cwd, stderr, call>>

RECURSIVE Payloads(_, _)
Payloads(dd, fmt) ==
    IF dd = <<>> THEN <<>>
    ELSE <<[source |-> Head(dd).source, mime |-> Head(dd).mime,
            file |-> Head(dd).file, image |-> Head(dd).image,
            metadata |-> IF fmt = "svg" THEN "isolated" ELSE "None"]>>
         \o Payloads(Tail(dd), fmt)

\* Publish calling the callback once whatever display_data holds
Publish_always ==
    /\ pc = "publish"
    /\ published' = Append(published,
                           [source |-> "TikZMagic.Tikz", mime |-> mimetypes[args.format],
                            file |-> ImageFile(args), image |-> RasterImage,
                            metadata |-> "None"])
    /\ End("returned")
    /\ UNCHANGED <<args, code, plot_dir, display_data, ninv, saved, stdout, fs,
                   cwd, stderr, call>>

\* lines 443-448
Publish ==
    /\ pc = "publish"
    /\ published' = published \o Payloads(display_data, args.format)
    /\ End("returned")
    /\ UNCHANGED <<args, code, plot_dir, display_data, ninv, saved, stdout, fs,
                   cwd, stderr, call>>

Init ==
    /\ InitPipeline
    /\ fs = [x \in {} |-> {}]
    /\ call = [op |-> "none"]

Next ==
    \/ Invoke
    \/ RunLatex
    \/ ConvertFormat
    \/ ReadImage
    \/ SaveCopy
    \/ Rmtree
    \/ Publish

Spec == Init /\ [][Next]_vars

(***************************************************************************)
(* Direct calls of the methods, on inputs drawn from bounded sets          *)
(***************************************************************************)
FlagAtoms == {"a", "b", ","}
Flags == SeqsUpTo(FlagAtoms, MaxFlagLen)
Bodies == SeqsUpTo(BodyAtoms, MaxBodyLen)

\* default configuration, every body, given on the line, in the cell or both
BodyArgs ==
    {[DefaultArgs EXCEPT !.format = f, !.code = w, !.cell = c] :
        f \in {"png", "svg"},
        w \in {<<>>, << <<"\\draw;">> >>},
        c \in {NoneStr} \cup {SomeStr(b) : b \in Bodies}}

\* every --package value, with and without the other preamble flags
PackageArgs ==
    {[DefaultArgs EXCEPT !.package = p, !.library = l, !.preamble = x,
                         !.circuitikz = ct, !.tkz_euclide = eu,
                         !.cell = SomeStr(<<"\\draw;">>)] :
        p \in Flags,
        l \in {<<>>, <<"l", ",", "m">>},
        x \in {<<>>, <<"\\tikzset{}">>},
        ct \in BOOLEAN, eu \in BOOLEAN}

VB(x, y, w, h) ==
    Digits(x) \o <<" ">> \o Digits(y) \o <<" ">> \o Digits(w) \o <<" ">> \o Digits(h)

Dims == {50, 100}

Images ==
    {[nsvg |-> 1, viewBox |-> VB(0, 0, w, h), width |-> ww, height |-> <<>>] :
        w \in Dims, h \in Dims, ww \in {<<>>, <<"7", "p", "t">>}}
    \cup {[nsvg |-> 1, viewBox |-> <<>>, width |-> <<>>, height |-> <<>>],
          [nsvg |-> 2, viewBox |-> VB(0, 0, 100, 50), width |-> <<>>, height |-> <<>>]}

Sizes == {NoSize} \cup {SomeSize(w, h) : w \in {100, 200}, h \in {100, 200}}

PipelineIdle ==
    UNCHANGED <<pc, args, code, plot_dir, display_data, result, ninv, published,
                saved, stdout>>

\* the arguments of a call that is about to be made
InitFn ==
    /\ InitPipeline
    /\ fs = [x \in {} |-> {}]
    /\ \/ \E a \in BodyArgs \cup PackageArgs :
             call = [op |-> "tikz_args", args |-> a]
       \/ \E image \in Images, size \in Sizes :
             call = [op |-> "svg_args", image |-> image, size |-> size]

CallAssemble ==
    /\ call.op = "tikz_args"
    /\ call' = [op |-> "assemble", args |-> call.args, doc |-> assemble(call.args)]
    /\ PipelineIdle
    /\ UNCHANGED <<fs, cwd, stderr>>

CallFixSvg ==
    /\ call.op = "svg_args"
    /\ call' = [op |-> "fix_gnuplot_svg_size", image |-> call.image,
                size |-> call.size,
                r |-> fix_gnuplot_svg_size(call.image, call.size)]
    /\ PipelineIdle
    /\ UNCHANGED <<fs, cwd, stderr>>

NextFn ==
    \/ CallAssemble
    \/ CallFixSvg

SpecFn == InitFn /\ [][NextFn]_vars

Called(op, dir, r) ==
    /\ call' = [op |-> op, dir |-> dir, cwd_before |-> cwd, exc |-> r.exc]
    /\ fs' = r.fs
    /\ cwd' = r.cwd
    /\ stderr' = r.err
    /\ PipelineIdle

CallRunLatex ==
    \E dir \in DOMAIN fs, o \in Outcomes :
        Called("run_latex", dir, run_latex(Env, assemble(DefaultArgs), dir, o))

CallConvertPdfToSvg ==
    \E dir \in DOMAIN fs, lib \in LibOutcomes :
        Called("convert_pdf_to_svg", dir, convert_pdf_to_svg(Env, dir, lib))

CallConvertPngToJpg ==
    \E dir \in DOMAIN fs, lib \in LibOutcomes :
        Called("convert_png_to_jpg", dir, convert_png_to_jpg(Env, dir, lib))

\* one directory made by the caller, holding any of the compiler's files
InitOps ==
    /\ InitPipeline
    /\ \E F \in SUBSET {"tikz.pdf", "tikz.png"} : fs = [x \in {1} |-> F]
    /\ call = [op |-> "none"]

NextOps ==
    \/ CallRunLatex
    \/ CallConvertPdfToSvg
    \/ CallConvertPngToJpg

SpecOps == InitOps /\ [][NextOps]_vars

(***************************************************************************)
(* Properties of the document assembler (SpecFn)                           *)
(***************************************************************************)
IsDefaultConfig(a) ==
    /\ a.package = <<>> /\ a.library = <<>> /\ a.pgfplotslibrary = <<>>
    /\ a.preamble = <<>> /\ ~a.circuitikz /\ ~a.tkz_euclide

\* C1: with the default configuration the document has exactly one
\* \begin{document} and one \end{document} of the assembler's own, the body B
\* stands unmodified and contiguous between them, and the assembler adds no
\* \begin{tikzpicture} or \end{tikzpicture}.
C1_BodyVerbatim ==
    (call.op = "assemble" /\ IsDefaultConfig(call.args)) =>
        LET doc == call.doc
            B == TikzCode(call.args)
        IN  /\ Count(doc, BEGIN_DOCUMENT) = 1 + Count(B, BEGIN_DOCUMENT)
            /\ Count(doc, END_DOCUMENT) = 1 + Count(B, END_DOCUMENT)
            /\ \E i \in 1..Len(doc) :
                  /\ doc[i] = BEGIN_DOCUMENT
                  /\ i + Len(B) + 1 <= Len(doc)
                  /\ SubSeq(doc, i + 1, i + Len(B)) = B
                  /\ doc[i + Len(B) + 1] = END_DOCUMENT
            /\ Count(doc, BEGIN_TIKZPICTURE) = Count(B, BEGIN_TIKZPICTURE)
            /\ Count(doc, END_TIKZPICTURE) = Count(B, END_TIKZPICTURE)

C1_Witness ==
    /\ call.op = "assemble"
    /\ IsDefaultConfig(call.args)
    /\ call.args.cell = SomeStr(<<BEGIN_TIKZPICTURE, END_TIKZPICTURE>>)
    /\ call.args.code # <<>>

RECURSIVE Join(_, _)
\* sep.join(names)
Join(names, sep) ==
    IF names = <<>> THEN <<>>
    ELSE IF Len(names) = 1 THEN names[1]
    ELSE Head(names) \o <<sep>> \o Join(Tail(names), sep)

PackageNames == SeqsUpTo({"a", "b"}, MaxFlagLen) \ {<<>>}
PackageLists == SeqsUpTo(PackageNames, (MaxFlagLen + 1) \div 2) \ {<<>>}

RECURSIVE ExpectedPackageLines(_)
ExpectedPackageLines(ps) ==
    IF ps = <<>> THEN <<>>
    ELSE <<"\\usepackage{">> \o Head(ps) \o <<"}\n">> \o ExpectedPackageLines(Tail(ps))

First(doc, a, from) == CHOOSE i \in from..Len(doc) :
                          doc[i] = a /\ \A j \in from..(i - 1) : doc[j] # a

\* C10: for --package p1,...,pn with every pi non-empty the document has exactly
\* n \usepackage{pi} lines, in the order given, right after the TikZ-family
\* \usepackage line and before \begin{document}; with an empty flag the
\* TikZ-family line is the only \usepackage line.
C10_PackageLines ==
    call.op = "assemble" =>
        LET doc == call.doc
            flag == call.args.package
            family == First(doc, "\\usepackage[", 1)
            after == First(doc, "}\n", family)
        IN  /\ Count(doc, "\\usepackage[") = 1
            /\ flag = <<>> => Count(doc, "\\usepackage{") = 0
            /\ \A ps \in PackageLists :
                  Join(ps, ",") = flag =>
                      /\ Count(doc, "\\usepackage{") = Len(ps)
                      /\ SubSeq(doc, after + 1, after + Len(ExpectedPackageLines(ps)))
                            = ExpectedPackageLines(ps)
                      /\ after + Len(ExpectedPackageLines(ps))
                            < First(doc, BEGIN_DOCUMENT, 1)

C10_Witness ==
    /\ call.op = "assemble"
    /\ call.args.package = <<"b", ",", "a">>
    /\ call.args.library # <<>>

(***************************************************************************)
(* Properties of the SVG post-processing (SpecFn)                          *)
(***************************************************************************)
\* C7: for an SVG with viewBox "x y W H" and no width/height, no size gives
\* width="Wpx" height="Hpx"; a size (w, h) gives width="wpx" height="hpx".
C7_SvgSize ==
    (call.op = "fix_gnuplot_svg_size" /\ call.image.nsvg = 1
        /\ call.image.width = <<>> /\ call.image.height = <<>>) =>
        \A W \in Dims, H \in Dims :
            call.image.viewBox = VB(0, 0, W, H) =>
                /\ call.r.exc = "none"
                /\ call.r.svg.width =
                      (IF call.size.some THEN Digits(call.size.w) ELSE Digits(W)) \o <<"px">>
                /\ call.r.svg.height =
                      (IF call.size.some THEN Digits(call.size.h) ELSE Digits(H)) \o <<"px">>

(***************************************************************************)
(* Properties of the runner and the converters (SpecOps)                   *)
(***************************************************************************)
\* C6: _run_latex, _convert_pdf_to_svg and _convert_png_to_jpg end with the
\* working directory they were entered with, whatever the process or the
\* library did.
C6_CwdRestored ==
    call.op \in {"run_latex", "convert_pdf_to_svg", "convert_png_to_jpg"} =>
        cwd = call.cwd_before

(***************************************************************************)
(* Properties of one invocation of tikz (Spec)                             *)
(***************************************************************************)
Wrote(log, line) == \E i \in 1..Len(log) : log[i] = line

Ended == pc = "idle" /\ result # "none"

CompilerFailed ==
    Wrote(stderr, "pdflatex terminated with signal") \/ Wrote(stderr, "LaTeX execution failed:")

\* C2: no invocation raises to its caller: every invocation returns normally.
C2_NoException == result \in {"none", "running", "returned"}

\* C3: when the file tikz.<format> is missing as the publish step reads it,
\* "No image generated." is written and the callback is not called in that
\* invocation.
C3_MissingImage ==
    [][/\ (pc = "read" /\ ImageFile(args) \notin fs[plot_dir]) =>
              (Wrote(stderr', "No image generated.") /\ display_data' = <<>>)
       /\ display_data = <<>> => published' = published]_vars

C3_Witness ==
    /\ Ended /\ result = "returned"
    /\ ~CompilerFailed
    /\ Wrote(stderr, "No image generated.")
    /\ published = <<>>

\* C4: --showlatex prints the document and ends with no compiler run, no
\* conversion, no publish, and without its temporary directory existing.
C4_ShowLatex ==
    (Ended /\ args.showlatex) =>
        /\ result = "returned"
        /\ stdout = code
        /\ stderr = <<>>
        /\ display_data = <<>>
        /\ plot_dir \notin DOMAIN fs

\* C5: whenever an invocation has ended, by return or otherwise, the temporary
\* directory it created no longer exists.
C5_TempDirDeleted == Ended => plot_dir \notin DOMAIN fs

\* C8: after a compiler failure (non-zero exit or launch error) the callback
\* is not called in that invocation.
C8_NoPublishAfterFailure == [][CompilerFailed => published' = published]_vars

\* C8 as amended: after a compiler failure the callback is not called unless
\* the file tikz.<format> was there when the publish step read it.
C8_NoPublishAfterFailureUnlessFile ==
    [][/\ (CompilerFailed /\ pc = "read" /\ ImageFile(args) \notin fs[plot_dir]) =>
              display_data' = <<>>
       /\ (CompilerFailed /\ display_data = <<>>) => published' = published]_vars

C8_Witness ==
    /\ Ended /\ result = "returned"
    /\ CompilerFailed
    /\ Wrote(stderr, "No image generated.")
    /\ ninv = 1 /\ published = <<>>

\* C9: the publish call comes after the image bytes are read and before the
\* temporary directory is deleted.
C9_PublishBeforeCleanup ==
    [][published' # published =>
          (display_data # <<>> /\ plot_dir \in DOMAIN fs)]_vars

\* C9 as amended: the publish call comes after the image bytes are read and
\* after the temporary directory is deleted.
C9_PublishAfterCleanup ==
    [][published' # published =>
          (display_data # <<>> /\ plot_dir \notin DOMAIN fs)]_vars

C9_Witness == Ended /\ result = "returned" /\ Len(published) = 1 /\ ~CompilerFailed

====
